---------------------------- MODULE Spec2Model ----------------------------
(***************************************************************************)
(* Reaction-diffusion (FitzHugh-Nagumo) simulation of                      *)
(* featured/05_turing.ipynb: the discretization cells, the random          *)
(* initialization of U and V, laplacian(Z) and the simulation loop.        *)
(*                                                                         *)
(* Numbers.  The notebook computes in IEEE double precision.  Here a real  *)
(* x is the integer round(x * Scale) (fixed point); sums are exact, every  *)
(* product and quotient is rounded to the nearest unit, as every float     *)
(* operation is rounded to the nearest double.  The non-finite doubles     *)
(* +inf, -inf and nan are the values PInf, NInf and NaN.                   *)
(*                                                                         *)
(* Runs.  The state is indexed by a run (one execution of the notebook).   *)
(* Spec launches one run; SpecPair launches two independent runs, which    *)
(* are compared by the properties over two executions (C4, C8).           *)
(***************************************************************************)
EXTENDS Integers, Sequences, FiniteSets, TLC

(***************************************************************************)
(* Bounds of the model.                                                    *)
(***************************************************************************)
MaxSize == 5
MaxIter == 2
MaxPairSize == 4

Runs == {1, 2}

(***************************************************************************)
(* Fixed-point doubles.                                                    *)
(***************************************************************************)
Scale == 10 * 100
PInf == 1000 * 1000 * 1000
NInf == 0 - PInf
NaN == PInf + 1

IsFinite(x) == x # PInf /\ x # NInf /\ x # NaN

Abs(x) == IF x < 0 THEN 0 - x ELSE x
Sgn(x) == IF x < 0 THEN 0 - 1 ELSE IF x > 0 THEN 1 ELSE 0

\* The operations are functions of their values, applied through the
\* operators below them.

\* x / y for integers x, y (y # 0), rounded to the nearest integer
RoundDivF[x \in Int, y \in Int] ==
    (Sgn(x) * Sgn(y)) * ((2 * Abs(x) + Abs(y)) \div (2 * Abs(y)))
RoundDiv(x, y) == RoundDivF[x, y]

NegF[x \in Int] ==
    IF x = NaN THEN NaN
    ELSE IF x = PInf THEN NInf
    ELSE IF x = NInf THEN PInf
    ELSE 0 - x
Neg(x) == NegF[x]

\* float addition x + y
AddF[x \in Int, y \in Int] ==
    IF x = NaN \/ y = NaN THEN NaN
    ELSE IF ~IsFinite(x) /\ ~IsFinite(y) THEN (IF x = y THEN x ELSE NaN)
    ELSE IF ~IsFinite(x) THEN x
    ELSE IF ~IsFinite(y) THEN y
    ELSE x + y
Add(x, y) == AddF[x, y]

\* float subtraction x - y
Sub(x, y) == AddF[x, NegF[y]]

\* float multiplication x * y
MulF[x \in Int, y \in Int] ==
    IF x = NaN \/ y = NaN THEN NaN
    ELSE IF ~IsFinite(x) \/ ~IsFinite(y)
         THEN (IF x = 0 \/ y = 0 THEN NaN
               ELSE IF (x > 0) = (y > 0) THEN PInf ELSE NInf)
    ELSE RoundDivF[x * y, Scale]
Mul(x, y) == MulF[x, y]

\* numpy's elementwise float division x / y: a zero divisor gives inf or nan
\* (with a warning), it does not raise
DivF[x \in Int, y \in Int] ==
    IF x = NaN \/ y = NaN THEN NaN
    ELSE IF y = 0
         THEN (IF x = 0 THEN NaN ELSE IF x > 0 THEN PInf ELSE NInf)
    ELSE IF ~IsFinite(y) THEN (IF IsFinite(x) THEN 0 ELSE NaN)
    ELSE IF ~IsFinite(x)
         THEN (IF (x > 0) = (y > 0) THEN PInf ELSE NInf)
    ELSE RoundDivF[x * Scale, y]
Div(x, y) == DivF[x, y]

\* x**3
Pow3F[x \in Int] == MulF[MulF[x, x], x]
Pow3(x) == Pow3F[x]

\* int(x): truncation toward zero of a finite float
IntOfF[x \in Int] == Sgn(x) * (Abs(x) \div Scale)
IntOf(x) == IntOfF[x]

\* the float of the integer m
Flt(m) == m * Scale

(***************************************************************************)
(* numpy arrays: a shape and the cells, indexed from 0.                    *)
(***************************************************************************)
Cells(rows, cols) == (0 .. (rows - 1)) \X (0 .. (cols - 1))

NoArray == [shape |-> <<0 - 1, 0 - 1>>, data |-> [p \in {} |-> 0]]

Rows(Z) == Z.shape[1]
Cols(Z) == Z.shape[2]

Max(x, y) == IF x > y THEN x ELSE y
Min(x, y) == IF x < y THEN x ELSE y

\* a slice bound s of an axis of length len, as slice.indices clamps it
Clamp(s, len) == IF s < 0 THEN Max(s + len, 0) ELSE Min(s, len)

\* Z[r0:r1, c0:c1]
Slice(Z, r0, r1, c0, c1) ==
    LET rlo == Clamp(r0, Rows(Z))
        rhi == Clamp(r1, Rows(Z))
        clo == Clamp(c0, Cols(Z))
        chi == Clamp(c1, Cols(Z))
        nr  == Max(rhi - rlo, 0)
        nc  == Max(chi - clo, 0)
    IN  [shape |-> <<nr, nc>>,
         data  |-> [p \in Cells(nr, nc) |-> Z.data[<<rlo + p[1], clo + p[2]>>]]]

\* Z[r0:r1, c0:c1] = A, for A of the shape of that slice
SetSlice(Z, r0, r1, c0, c1, A) ==
    LET rlo == Clamp(r0, Rows(Z))
        clo == Clamp(c0, Cols(Z))
    IN  [Z EXCEPT !.data =
            [p \in DOMAIN Z.data |->
                IF <<p[1] - rlo, p[2] - clo>> \in DOMAIN A.data
                THEN A.data[<<p[1] - rlo, p[2] - clo>>]
                ELSE Z.data[p]]]

\* an index k of an axis of length len: negative indices count from the end
Idx(k, len) == IF k < 0 THEN k + len ELSE k
InRange(k, len) == Idx(k, len) >= 0 /\ Idx(k, len) < len

\* Z[dst,:] = Z[src,:]
CopyRow(Z, dst, src) ==
    [Z EXCEPT !.data =
        [p \in DOMAIN Z.data |->
            IF p[1] = Idx(dst, Rows(Z))
            THEN Z.data[<<Idx(src, Rows(Z)), p[2]>>]
            ELSE Z.data[p]]]

\* Z[:,dst] = Z[:,src]
CopyCol(Z, dst, src) ==
    [Z EXCEPT !.data =
        [p \in DOMAIN Z.data |->
            IF p[2] = Idx(dst, Cols(Z))
            THEN Z.data[<<p[1], Idx(src, Cols(Z))>>]
            ELSE Z.data[p]]]

\* Faulty variant of laplacian: Zbottom is taken from the wrong columns, Z[2:,0:-2].
laplacianShifted(Z, dxr) ==
    LET Ztop    == Slice(Z, 0, 0 - 2, 1, 0 - 1)
        Zleft   == Slice(Z, 1, 0 - 1, 0, 0 - 2)
        Zbottom == Slice(Z, 2, Rows(Z), 0, 0 - 2)
        Zright  == Slice(Z, 1, 0 - 1, 2, Cols(Z))
        Zcenter == Slice(Z, 1, 0 - 1, 1, 0 - 1)
    IN  [shape |-> Zcenter.shape,
         data  |-> [p \in DOMAIN Zcenter.data |->
                       Div(Sub(Add(Add(Add(Ztop.data[p], Zleft.data[p]), Zbottom.data[p]),
                                   Zright.data[p]),
                               Mul(Flt(4), Zcenter.data[p])),
                           Mul(dxr, dxr))]]

\* Faulty variant of laplacian: the centre is weighted 3 instead of 4.
laplacianWeight3(Z, dxr) ==
    LET Ztop    == Slice(Z, 0, 0 - 2, 1, 0 - 1)
        Zleft   == Slice(Z, 1, 0 - 1, 0, 0 - 2)
        Zbottom == Slice(Z, 2, Rows(Z), 1, 0 - 1)
        Zright  == Slice(Z, 1, 0 - 1, 2, Cols(Z))
        Zcenter == Slice(Z, 1, 0 - 1, 1, 0 - 1)
    IN  [shape |-> Zcenter.shape,
         data  |-> [p \in DOMAIN Zcenter.data |->
                       Div(Sub(Add(Add(Add(Ztop.data[p], Zleft.data[p]), Zbottom.data[p]),
                                   Zright.data[p]),
                               Mul(Flt(3), Zcenter.data[p])),
                           Mul(dxr, dxr))]]

(***************************************************************************)
(* def laplacian(Z), reading the global dx (here dxr); the sum is taken     *)
(* cell by cell over the five slices, which have one shape.                *)
(***************************************************************************)
laplacian(Z, dxr) ==
    LET Ztop    == Slice(Z, 0, 0 - 2, 1, 0 - 1)
        Zleft   == Slice(Z, 1, 0 - 1, 0, 0 - 2)
        Zbottom == Slice(Z, 2, Rows(Z), 1, 0 - 1)
        Zright  == Slice(Z, 1, 0 - 1, 2, Cols(Z))
        Zcenter == Slice(Z, 1, 0 - 1, 1, 0 - 1)
    IN  [shape |-> Zcenter.shape,
         data  |-> [p \in DOMAIN Zcenter.data |->
                       Div(Sub(Add(Add(Add(Ztop.data[p], Zleft.data[p]), Zbottom.data[p]),
                                   Zright.data[p]),
                               Mul(Flt(4), Zcenter.data[p])),
                           Mul(dxr, dxr))]]


(***************************************************************************)
(* The inputs of a run: the literals of the parameter and discretization   *)
(* cells (a, b, tau, k, size, T) and the random source np.random.          *)
(***************************************************************************)
AValues   == {0, 280}
BValues   == {0, 5}
TauValues == {0, 100, 1000}
KValues   == {0, 0 - 5}
TValues   == {0 - 100, 0, 100, 250, 500, 2000}

\* A random source is the stream of floats in [0, 1) it will return: the
\* values of one of three fixed sequences (all 0, all 0.5, or a sequence
\* over 0, 0.25, 0.5, 0.75), but for its pos-th value when pos >= 0, which
\* is a quarter more (modulo 1).
Patterns == {0, 1, 2}

Pattern(base, q) ==
    IF base = 0 THEN 0
    ELSE IF base = 1 THEN Scale \div 2
    ELSE ((q * 7 + 3) % 4) * (Scale \div 4)

Sources(len) == [base : Patterns, pos : (0 - 1) .. (len - 1)]

Stream(s, q) ==
    IF q = s.pos
    THEN (Pattern(s.base, q) + (Scale \div 4)) % Scale
    ELSE Pattern(s.base, q)

\* np.random.rand(rows, cols) when the source has returned `drawn` values
rand(src, drawn, rows, cols) ==
    [shape |-> <<rows, cols>>,
     data  |-> [p \in Cells(rows, cols) |-> Stream(src, drawn + p[1] * cols + p[2])]]

\* dx = 2./size
SpaceStep(size) == Div(Flt(2), Flt(size))
\* dt = .9 * dx**2/2
TimeStep(dxr) == Div(Mul((9 * Scale) \div 10, Mul(dxr, dxr)), Flt(2))
\* n = int(T/dt)
IterCount(T, dtr) == IntOf(Div(T, dtr))

Configs(sizes) ==
    {c \in [size : sizes, T : TValues, a : AValues, b : BValues,
            tau : TauValues, k : KValues] :
        /\ (c.a = 0) = (c.b = 0) /\ (c.a = 0) = (c.k = 0)
        /\ \/ c.size = 0
           \/ TimeStep(SpaceStep(c.size)) = 0
           \/ IterCount(c.T, TimeStep(SpaceStep(c.size))) <= MaxIter}

VARIABLES
    pc,         \* pc[r]: the statement run r executes next
    cfg,        \* cfg[r]: size, T, a, b, tau, k
    src,        \* src[r]: the random source of run r
    drawn,      \* drawn[r]: how many values the source has returned
    dx, dt, n,  \* the discretization cell's globals
    U, V,       \* the two fields
    deltaU, deltaV,
    i,          \* the iterations of the loop completed so far
    prevU, prevV \* history: U, V at the end of the last iteration (or as drawn)

vars == <<pc, cfg, src, drawn, dx, dt, n, U, V, deltaU, deltaV, i, prevU, prevV>>

Unset == [r \in Runs |-> 0]
NoArrays == [r \in Runs |-> NoArray]

\* One run: run 1 gets any configuration and source, run 2 is not launched.
\* what every variable but cfg, src and pc holds before the first cell runs
Blank ==
    /\ drawn = Unset /\ dx = Unset /\ dt = Unset /\ n = Unset /\ i = Unset
    /\ U = NoArrays /\ V = NoArrays /\ deltaU = NoArrays /\ deltaV = NoArrays
    /\ prevU = NoArrays /\ prevV = NoArrays

Init ==
    /\ \E c \in Configs(0 .. MaxSize) :
           \E s \in Sources(2 * c.size * c.size) :
               /\ cfg = [r \in Runs |-> c]
               /\ src = [r \in Runs |-> s]
    /\ pc = [r \in Runs |-> IF r = 1 THEN "discretize" ELSE "idle"]
    /\ Blank

\* size = ...; dx = 2./size; T = ...; dt = .9 * dx**2/2; n = int(T/dt)
\* A float division by zero raises ZeroDivisionError.
Discretize(r) ==
    /\ pc[r] = "discretize"
    /\ IF cfg[r].size = 0 \/ TimeStep(SpaceStep(cfg[r].size)) = 0
       THEN /\ pc' = [pc EXCEPT ![r] = "error"]
            /\ UNCHANGED <<dx, dt, n>>
       ELSE /\ dx' = [dx EXCEPT ![r] = SpaceStep(cfg[r].size)]
            /\ dt' = [dt EXCEPT ![r] = TimeStep(dx'[r])]
            /\ n' = [n EXCEPT ![r] = IterCount(cfg[r].T, dt'[r])]
            /\ pc' = [pc EXCEPT ![r] = "initialize"]
    /\ UNCHANGED <<cfg, src, drawn, U, V, deltaU, deltaV, i, prevU, prevV>>

\* Faulty variant of Initialize: the two runs draw from one shared generator, so a
\* run starts where the draws of both have left it.
InitializeSharedSource(r) ==
    /\ pc[r] = "initialize"
    /\ U' = [U EXCEPT ![r] = rand(src[r], drawn[1] + drawn[2], cfg[r].size, cfg[r].size)]
    /\ V' = [V EXCEPT ![r] = rand(src[r], drawn[1] + drawn[2] + cfg[r].size * cfg[r].size,
                                  cfg[r].size, cfg[r].size)]
    /\ drawn' = [drawn EXCEPT ![r] = @ + 2 * cfg[r].size * cfg[r].size]
    /\ prevU' = [prevU EXCEPT ![r] = U'[r]]
    /\ prevV' = [prevV EXCEPT ![r] = V'[r]]
    /\ pc' = [pc EXCEPT ![r] = "for"]
    /\ UNCHANGED <<cfg, src, dx, dt, n, deltaU, deltaV, i>>

\* U = np.random.rand(size, size); V = np.random.rand(size, size)
Initialize(r) ==
    /\ pc[r] = "initialize"
    /\ U' = [U EXCEPT ![r] = rand(src[r], drawn[r], cfg[r].size, cfg[r].size)]
    /\ V' = [V EXCEPT ![r] = rand(src[r], drawn[r] + cfg[r].size * cfg[r].size,
                                  cfg[r].size, cfg[r].size)]
    /\ drawn' = [drawn EXCEPT ![r] = @ + 2 * cfg[r].size * cfg[r].size]
    /\ prevU' = [prevU EXCEPT ![r] = U'[r]]
    /\ prevV' = [prevV EXCEPT ![r] = V'[r]]
    /\ pc' = [pc EXCEPT ![r] = "for"]
    /\ UNCHANGED <<cfg, src, dx, dt, n, deltaU, deltaV, i>>

\* Faulty variant of ComputeLaplacians: the loop runs while i != n.
ComputeLaplaciansUntilEqual(r) ==
    /\ pc[r] = "for"
    /\ i[r] # n[r]
    /\ deltaU' = [deltaU EXCEPT ![r] = laplacian(U[r], dx[r])]
    /\ deltaV' = [deltaV EXCEPT ![r] = laplacian(V[r], dx[r])]
    /\ pc' = [pc EXCEPT ![r] = "update"]
    /\ UNCHANGED <<cfg, src, drawn, dx, dt, n, U, V, i, prevU, prevV>>

\* for i in range(n): deltaU = laplacian(U); deltaV = laplacian(V)
ComputeLaplacians(r) ==
    /\ pc[r] = "for"
    /\ i[r] < n[r]
    /\ deltaU' = [deltaU EXCEPT ![r] = laplacian(U[r], dx[r])]
    /\ deltaV' = [deltaV EXCEPT ![r] = laplacian(V[r], dx[r])]
    /\ pc' = [pc EXCEPT ![r] = "update"]
    /\ UNCHANGED <<cfg, src, drawn, dx, dt, n, U, V, i, prevU, prevV>>

\* Faulty variant of Finish: the loop stops one iteration early.
FinishEarly(r) ==
    /\ pc[r] = "for"
    /\ i[r] + 1 >= n[r]
    /\ pc' = [pc EXCEPT ![r] = "done"]
    /\ UNCHANGED <<cfg, src, drawn, dx, dt, n, U, V, deltaU, deltaV, i, prevU, prevV>>

\* range(n) is exhausted
Finish(r) ==
    /\ pc[r] = "for"
    /\ i[r] >= n[r]
    /\ pc' = [pc EXCEPT ![r] = "done"]
    /\ UNCHANGED <<cfg, src, drawn, dx, dt, n, U, V, deltaU, deltaV, i, prevU, prevV>>

\* Faulty variant of NewU: Vc is added instead of subtracted.
NewUPlusV(Uc, Vc, dU, dtr, a, k) ==
    [shape |-> Uc.shape,
     data  |-> [p \in DOMAIN Uc.data |->
                   Add(Uc.data[p],
                       Mul(dtr,
                           Add(Add(Sub(Add(Mul(a, dU.data[p]), Uc.data[p]),
                                       Pow3(Uc.data[p])),
                                   Vc.data[p]),
                               k)))]]

\* Uc + dt * (a * deltaU + Uc - Uc**3 - Vc + k)
\* (elementwise, over arrays of one shape)
NewU(Uc, Vc, dU, dtr, a, k) ==
    [shape |-> Uc.shape,
     data  |-> [p \in DOMAIN Uc.data |->
                   Add(Uc.data[p],
                       Mul(dtr,
                           Add(Sub(Sub(Add(Mul(a, dU.data[p]), Uc.data[p]),
                                       Pow3(Uc.data[p])),
                                   Vc.data[p]),
                               k)))]]

\* Vc + dt * (b * deltaV + Uc - Vc) / tau
NewV(Uc, Vc, dV, dtr, b, tau) ==
    [shape |-> Vc.shape,
     data  |-> [p \in DOMAIN Vc.data |->
                   Add(Vc.data[p],
                       Div(Mul(dtr,
                               Sub(Add(Mul(b, dV.data[p]), Uc.data[p]), Vc.data[p])),
                           tau))]]

\* Faulty variant of InteriorUpdate: U is assigned first and the right-hand side of V
\* reads the view Uc after it (two assignment statements).
InteriorUpdateSequential(r) ==
    /\ pc[r] = "update"
    /\ LET Uc == Slice(U[r], 1, 0 - 1, 1, 0 - 1)
           Vc == Slice(V[r], 1, 0 - 1, 1, 0 - 1)
           rhsU == NewU(Uc, Vc, deltaU[r], dt[r], cfg[r].a, cfg[r].k)
           rhsV == NewV(rhsU, Vc, deltaV[r], dt[r], cfg[r].b, cfg[r].tau)
       IN  /\ U' = [U EXCEPT ![r] = SetSlice(@, 1, 0 - 1, 1, 0 - 1, rhsU)]
           /\ V' = [V EXCEPT ![r] = SetSlice(@, 1, 0 - 1, 1, 0 - 1, rhsV)]
    /\ pc' = [pc EXCEPT ![r] = "neumannU"]
    /\ UNCHANGED <<cfg, src, drawn, dx, dt, n, deltaU, deltaV, i, prevU, prevV>>

\* Faulty variant of InteriorUpdate: the right-hand side of U reads deltaV.
InteriorUpdateWrongDelta(r) ==
    /\ pc[r] = "update"
    /\ LET Uc == Slice(U[r], 1, 0 - 1, 1, 0 - 1)
           Vc == Slice(V[r], 1, 0 - 1, 1, 0 - 1)
           rhsU == NewU(Uc, Vc, deltaV[r], dt[r], cfg[r].a, cfg[r].k)
           rhsV == NewV(Uc, Vc, deltaV[r], dt[r], cfg[r].b, cfg[r].tau)
       IN  /\ U' = [U EXCEPT ![r] = SetSlice(@, 1, 0 - 1, 1, 0 - 1, rhsU)]
           /\ V' = [V EXCEPT ![r] = SetSlice(@, 1, 0 - 1, 1, 0 - 1, rhsV)]
    /\ pc' = [pc EXCEPT ![r] = "neumannU"]
    /\ UNCHANGED <<cfg, src, drawn, dx, dt, n, deltaU, deltaV, i, prevU, prevV>>

\* Uc = U[1:-1,1:-1]; Vc = V[1:-1,1:-1]
\* U[1:-1,1:-1], V[1:-1,1:-1] = <the two right-hand sides>
\* Both right-hand sides are evaluated, into new arrays, before either slice
\* is assigned.
InteriorUpdate(r) ==
    /\ pc[r] = "update"
    /\ LET Uc == Slice(U[r], 1, 0 - 1, 1, 0 - 1)
           Vc == Slice(V[r], 1, 0 - 1, 1, 0 - 1)
           rhsU == NewU(Uc, Vc, deltaU[r], dt[r], cfg[r].a, cfg[r].k)
           rhsV == NewV(Uc, Vc, deltaV[r], dt[r], cfg[r].b, cfg[r].tau)
       IN  /\ U' = [U EXCEPT ![r] = SetSlice(@, 1, 0 - 1, 1, 0 - 1, rhsU)]
           /\ V' = [V EXCEPT ![r] = SetSlice(@, 1, 0 - 1, 1, 0 - 1, rhsV)]
    /\ pc' = [pc EXCEPT ![r] = "neumannU"]
    /\ UNCHANGED <<cfg, src, drawn, dx, dt, n, deltaU, deltaV, i, prevU, prevV>>

\* Faulty variant of Neumann: the last column is not copied.
NeumannNoLastColumn(Z) ==
    CopyCol(CopyRow(CopyRow(Z, 0, 1), 0 - 1, 0 - 2), 0, 1)

\* Faulty variant of Neumann: the first row is copied the wrong way, Z[1,:] = Z[0,:].
NeumannReversed(Z) ==
    CopyCol(CopyCol(CopyRow(CopyRow(Z, 1, 0), 0 - 1, 0 - 2), 0, 1), 0 - 1, 0 - 2)

\* Z[0,:] = Z[1,:]; Z[-1,:] = Z[-2,:]; Z[:,0] = Z[:,1]; Z[:,-1] = Z[:,-2]
Neumann(Z) ==
    CopyCol(CopyCol(CopyRow(CopyRow(Z, 0, 1), 0 - 1, 0 - 2), 0, 1), 0 - 1, 0 - 2)

\* whether the four assignments index inside Z (else IndexError, raised by the
\* first of them)
NeumannInRange(Z) ==
    /\ InRange(0, Rows(Z)) /\ InRange(1, Rows(Z))
    /\ InRange(0 - 1, Rows(Z)) /\ InRange(0 - 2, Rows(Z))
    /\ InRange(0, Cols(Z)) /\ InRange(1, Cols(Z))
    /\ InRange(0 - 1, Cols(Z)) /\ InRange(0 - 2, Cols(Z))

\* for Z in (U, V): the pass over U
NeumannU(r) ==
    /\ pc[r] = "neumannU"
    /\ IF NeumannInRange(U[r])
       THEN /\ U' = [U EXCEPT ![r] = Neumann(@)]
            /\ pc' = [pc EXCEPT ![r] = "neumannV"]
       ELSE /\ pc' = [pc EXCEPT ![r] = "error"]
            /\ UNCHANGED U
    /\ UNCHANGED <<cfg, src, drawn, dx, dt, n, V, deltaU, deltaV, i, prevU, prevV>>

\* for Z in (U, V): the pass over V, which ends the iteration
NeumannV(r) ==
    /\ pc[r] = "neumannV"
    /\ IF NeumannInRange(V[r])
       THEN /\ V' = [V EXCEPT ![r] = Neumann(@)]
            /\ i' = [i EXCEPT ![r] = @ + 1]
            /\ prevU' = [prevU EXCEPT ![r] = U[r]]
            /\ prevV' = [prevV EXCEPT ![r] = V'[r]]
            /\ pc' = [pc EXCEPT ![r] = "for"]
       ELSE /\ pc' = [pc EXCEPT ![r] = "error"]
            /\ UNCHANGED <<V, i, prevU, prevV>>
    /\ UNCHANGED <<cfg, src, drawn, dx, dt, n, U, deltaU, deltaV>>

\* the next statement of run r
Step(r) ==
    \/ Discretize(r)
    \/ Initialize(r)
    \/ ComputeLaplacians(r)
    \/ Finish(r)
    \/ InteriorUpdate(r)
    \/ NeumannU(r)
    \/ NeumannV(r)

Next == \E r \in Runs : Step(r)

Spec == Init /\ [][Next]_vars

\* One run, of any configuration and the sources without a deviating value.
FairInit ==
    /\ \E c \in Configs(0 .. MaxSize) :
           \E s \in {t \in Sources(0) : t.pos < 0} :
               /\ cfg = [r \in Runs |-> c]
               /\ src = [r \in Runs |-> s]
    /\ pc = [r \in Runs |-> IF r = 1 THEN "discretize" ELSE "idle"]
    /\ Blank

\* Two independent runs of one configuration (valid, with at least one
\* iteration).  Run 1 draws from a source without a deviating value; run 2
\* from the same source, or from it with one value drawn for V deviating.
PairConfigs ==
    {c \in Configs(3 .. MaxPairSize) :
        c.tau # 0 /\ IterCount(c.T, TimeStep(SpaceStep(c.size))) >= 1}

PairInit ==
    /\ \E c \in PairConfigs :
           \E s \in Sources(2 * c.size * c.size) :
               /\ s.pos < 0 \/ s.pos >= c.size * c.size
               /\ cfg = [r \in Runs |-> c]
               /\ src = [r \in Runs |-> IF r = 1 THEN [s EXCEPT !.pos = 0 - 1] ELSE s]
    /\ pc = [r \in Runs |-> "discretize"]
    /\ Blank

SpecPair == PairInit /\ [][Next]_vars

\* The samples of an affine function alpha*i + beta*j + gamma on the grid
Affine(size, alpha, beta, gamma) ==
    [shape |-> <<size, size>>,
     data  |-> [p \in Cells(size, size) |-> alpha * p[1] + beta * p[2] + gamma]]

Slopes     == {0 - 40, 0, 20, 40}
Intercepts == {400, 500}

\* laplacian applied to affine fields: a run at the head of its loop whose
\* fields sample affine functions with values in [0, 1)
AffineInit ==
    /\ \E c \in Configs(3 .. MaxSize) :
           /\ c.a = 0 /\ c.tau = Flt(1)
           /\ IterCount(c.T, TimeStep(SpaceStep(c.size))) >= 1
           /\ cfg = [r \in Runs |-> c]
           /\ dx = [r \in Runs |-> SpaceStep(c.size)]
           /\ dt = [r \in Runs |-> TimeStep(SpaceStep(c.size))]
           /\ n = [r \in Runs |-> IterCount(c.T, TimeStep(SpaceStep(c.size)))]
           /\ drawn = [r \in Runs |-> 2 * c.size * c.size]
           /\ \E alpha \in Slopes, beta \in Slopes, gamma \in Intercepts :
                  /\ U = [r \in Runs |-> Affine(c.size, alpha, beta, gamma)]
                  /\ V = [r \in Runs |-> Affine(c.size, beta, alpha, gamma)]
    /\ src = [r \in Runs |-> [base |-> 0, pos |-> 0 - 1]]
    /\ pc = [r \in Runs |-> IF r = 1 THEN "for" ELSE "idle"]
    /\ i = Unset
    /\ deltaU = NoArrays /\ deltaV = NoArrays
    /\ prevU = U /\ prevV = V

NextAffine == \E r \in Runs : ComputeLaplacians(r)

SpecAffine == AffineInit /\ [][NextAffine]_vars

\* The interpreter always executes the next statement of a run that has one.
FairSpec == FairInit /\ [][Next]_vars /\ WF_vars(Next)


(***************************************************************************)
(* Vocabulary of the properties.                                           *)
(***************************************************************************)
At(Z, p, q) == Z.data[<<p, q>>]

Interior(size) == (1 .. (size - 2)) \X (1 .. (size - 2))

OnBoundary(c, size) ==
    c[1] = 0 \/ c[1] = size - 1 \/ c[2] = 0 \/ c[2] = size - 1

\* the five-point formula at the interior cell (p, q) of Z
Stencil(Z, p, q, dxr) ==
    Div(Sub(Add(Add(Add(At(Z, p - 1, q), At(Z, p + 1, q)), At(Z, p, q - 1)),
                At(Z, p, q + 1)),
            Mul(Flt(4), At(Z, p, q))),
        Mul(dxr, dxr))

\* each edge row and column of Z equals its neighbour, corners included
BoundaryCopied(Z) ==
    \A j \in 0 .. (Rows(Z) - 1) :
        /\ At(Z, 0, j) = At(Z, 1, j)
        /\ At(Z, Rows(Z) - 1, j) = At(Z, Rows(Z) - 2, j)
        /\ At(Z, j, 0) = At(Z, j, 1)
        /\ At(Z, j, Cols(Z) - 1) = At(Z, j, Cols(Z) - 2)

\* C1: for every size >= 3, once the boundary pass of an iteration has run
\* over a field (over U when the pass over V is next, over both from the end
\* of the iteration until the next interior update), row 0 equals row 1, the
\* last row the one before it, column 0 column 1 and the last column the one
\* before it, in every cell, corners included.
C1_BoundaryInvariant ==
    \A r \in Runs :
        cfg[r].size >= 3 =>
            /\ pc[r] = "neumannV" => BoundaryCopied(U[r])
            /\ (i[r] >= 1 /\ pc[r] \in {"for", "update", "done"}) =>
                   BoundaryCopied(U[r]) /\ BoundaryCopied(V[r])

C1_Witness ==
    \E r \in Runs :
        /\ cfg[r].size = 4 /\ pc[r] = "for" /\ i[r] = 2
        /\ At(U[r], 1, 1) # At(U[r], 2, 2)
        /\ At(U[r], 0, 0) = At(U[r], 1, 1)
        /\ At(V[r], 3, 3) = At(V[r], 2, 2)

\* C2: just after the interior update of an iteration, every interior cell of
\* U holds Uc + dt * (a * Laplacian(U) + Uc - Uc^3 - Vc + k) and every interior
\* cell of V holds Vc + dt * (b * Laplacian(V) + Uc - Vc) / tau, where Uc, Vc
\* and the Laplacians are those of the fields as the previous iteration left
\* them (prevU, prevV): neither update reads a value written in this
\* iteration.  The quotient by tau is taken after the product by dt, as the
\* code evaluates it.
C2_SynchronousUpdate ==
    \A r \in Runs :
        (pc[r] = "neumannU" /\ cfg[r].size >= 3) =>
            \A c \in Interior(cfg[r].size) :
                LET uc == At(prevU[r], c[1], c[2])
                    vc == At(prevV[r], c[1], c[2])
                    lapU == Stencil(prevU[r], c[1], c[2], dx[r])
                    lapV == Stencil(prevV[r], c[1], c[2], dx[r])
                IN  /\ At(U[r], c[1], c[2]) =
                         Add(uc, Mul(dt[r],
                             Add(Sub(Sub(Add(Mul(cfg[r].a, lapU), uc), Pow3(uc)), vc),
                                 cfg[r].k)))
                    /\ At(V[r], c[1], c[2]) =
                         Add(vc, Div(Mul(dt[r],
                             Sub(Add(Mul(cfg[r].b, lapV), uc), vc)), cfg[r].tau))

C2_Witness ==
    \E r \in Runs :
        /\ pc[r] = "neumannU" /\ cfg[r].size = 4 /\ i[r] = 1
        /\ cfg[r].tau # 0 /\ cfg[r].a # 0
        /\ At(U[r], 1, 1) # At(prevU[r], 1, 1)
        /\ At(V[r], 1, 1) # At(prevV[r], 1, 1)
        /\ At(prevU[r], 1, 1) # At(prevU[r], 1, 2)

\* C3: for size >= 3, laplacian(Z) has shape (size-2, size-2) and its cell
\* (i-1, j-1) is (Z[i-1,j] + Z[i+1,j] + Z[i,j-1] + Z[i,j+1] - 4*Z[i,j]) / dx^2
\* for every interior index (i, j); stated of the two Laplacians the loop has
\* just computed, of U and of V.
C3_LaplacianContract ==
    \A r \in Runs :
        (pc[r] = "update" /\ cfg[r].size >= 3) =>
            /\ deltaU[r].shape = <<cfg[r].size - 2, cfg[r].size - 2>>
            /\ deltaV[r].shape = <<cfg[r].size - 2, cfg[r].size - 2>>
            /\ DOMAIN deltaU[r].data = Cells(cfg[r].size - 2, cfg[r].size - 2)
            /\ DOMAIN deltaV[r].data = Cells(cfg[r].size - 2, cfg[r].size - 2)
            /\ \A c \in Interior(cfg[r].size) :
                   /\ At(deltaU[r], c[1] - 1, c[2] - 1) = Stencil(U[r], c[1], c[2], dx[r])
                   /\ At(deltaV[r], c[1] - 1, c[2] - 1) = Stencil(V[r], c[1], c[2], dx[r])

C3_Witness ==
    \E r \in Runs :
        /\ pc[r] = "update" /\ cfg[r].size = 4 /\ i[r] = 1
        /\ At(deltaU[r], 0, 0) # 0 /\ At(deltaU[r], 0, 0) # At(deltaU[r], 1, 1)
        /\ IsFinite(At(deltaU[r], 0, 0))


\* the invalid configurations: size < 3, tau == 0 or T < 0
InvalidConfig(c) == c.size < 3 \/ c.tau = 0 \/ c.T < 0

\* run r is inside, or has completed, an iteration of the loop
Iterating(r) == pc[r] \in {"update", "neumannU", "neumannV"} \/ i[r] > 0

Scenario6(r) ==
    /\ cfg[r].size = 5 /\ cfg[r].a = 0 /\ cfg[r].b = 0 /\ cfg[r].k = 0
    /\ cfg[r].tau = Flt(1)
    /\ src[r].base = 1 /\ src[r].pos = 0 - 1
    /\ dt[r] > 0 /\ 2 * dt[r] <= Mul(dx[r], dx[r])

\* run r has just made the interior update of its first iteration
FirstUpdateDone(r) == pc[r] = "neumannU" /\ i[r] = 0

\* C6 as claimed: in the scenario one interior update leaves both Laplacians
\* 0, makes every interior U cell 0.5 + 0.375 * dt and leaves V unchanged.
C6_Original ==
    \A r \in Runs :
        (Scenario6(r) /\ FirstUpdateDone(r)) =>
            /\ \A c \in Cells(3, 3) : At(deltaU[r], c[1], c[2]) = 0 /\ At(deltaV[r], c[1], c[2]) = 0
            /\ \A c \in Interior(5) :
                   At(U[r], c[1], c[2]) = Add(Scale \div 2, Mul(dt[r], (3 * Scale) \div 8))
            /\ \A c \in Cells(5, 5) : At(V[r], c[1], c[2]) = Scale \div 2

\* C6 as amended: the update also subtracts Vc = 0.5, so every interior U
\* cell becomes 0.5 + dt * (0.375 - 0.5) = 0.5 - 0.125 * dt; the Laplacians are
\* 0, V is unchanged, and so are the boundary cells of U.
C6_ScenarioUpdate ==
    \A r \in Runs :
        (Scenario6(r) /\ FirstUpdateDone(r)) =>
            /\ \A c \in Cells(3, 3) : At(deltaU[r], c[1], c[2]) = 0 /\ At(deltaV[r], c[1], c[2]) = 0
            /\ \A c \in Interior(5) :
                   At(U[r], c[1], c[2]) = Add(Scale \div 2, Mul(dt[r], 0 - (Scale \div 8)))
            /\ \A c \in Cells(5, 5) :
                   /\ At(V[r], c[1], c[2]) = Scale \div 2
                   /\ OnBoundary(c, 5) => At(U[r], c[1], c[2]) = Scale \div 2

C6_Witness ==
    \E r \in Runs :
        /\ Scenario6(r) /\ FirstUpdateDone(r)
        /\ At(U[r], 2, 2) < Scale \div 2
        /\ At(prevU[r], 2, 2) = Scale \div 2

\* the valid configurations of C9: size >= 3 and T >= 0 (dt is then positive)
ValidConfig(c) == c.size >= 3 /\ c.T >= 0 /\ TimeStep(SpaceStep(c.size)) > 0

\* floor(T/dt) for the dt of configuration c
FloorIterations(c) == Div(c.T, TimeStep(SpaceStep(c.size))) \div Scale

\* C9: a run of a valid configuration never fails, is never past iteration
\* floor(T/dt), is done only after exactly floor(T/dt) iterations, with U and V
\* of shape size x size, and does become done.
C9_ExactIterations ==
    /\ [](\A r \in Runs :
             ValidConfig(cfg[r]) =>
                 /\ pc[r] # "error"
                 /\ i[r] <= FloorIterations(cfg[r])
                 /\ pc[r] \in {"update", "neumannU", "neumannV"} =>
                        i[r] < FloorIterations(cfg[r])
                 /\ pc[r] = "done" =>
                        /\ i[r] = FloorIterations(cfg[r])
                        /\ U[r].shape = <<cfg[r].size, cfg[r].size>>
                        /\ V[r].shape = <<cfg[r].size, cfg[r].size>>
                        /\ DOMAIN U[r].data = Cells(cfg[r].size, cfg[r].size)
                        /\ DOMAIN V[r].data = Cells(cfg[r].size, cfg[r].size))
    /\ \A r \in Runs :
           (pc[r] = "discretize" /\ ValidConfig(cfg[r])) ~> (pc[r] = "done")

C9_Witness ==
    \E r \in Runs :
        /\ cfg[r].size = 3 /\ cfg[r].T > 0 /\ pc[r] = "done" /\ i[r] = 2

\* C10: each phase writes only its own region.  Computing the Laplacians
\* changes no cell of U or V; the interior update changes no boundary cell;
\* the boundary pass over U changes no interior cell of U and no cell of V,
\* the pass over V no interior cell of V and no cell of U; and a boundary pass
\* starts only from the interior update of its iteration.
C10_Frame ==
    [][\A r \in Runs :
          /\ (pc[r] = "for" /\ pc'[r] = "update") =>
                 U'[r] = U[r] /\ V'[r] = V[r]
          /\ (pc[r] = "update" /\ pc'[r] = "neumannU") =>
                 \A c \in DOMAIN U[r].data :
                     OnBoundary(c, cfg[r].size) =>
                         /\ U'[r].data[c] = U[r].data[c]
                         /\ V'[r].data[c] = V[r].data[c]
          /\ (pc[r] = "neumannU" /\ pc'[r] = "neumannV") =>
                 /\ V'[r] = V[r]
                 /\ \A c \in Interior(cfg[r].size) : U'[r].data[c] = U[r].data[c]
          /\ (pc[r] = "neumannV" /\ pc'[r] = "for") =>
                 /\ U'[r] = U[r]
                 /\ \A c \in Interior(cfg[r].size) : V'[r].data[c] = V[r].data[c]
          /\ (pc'[r] = "neumannU" /\ pc[r] # "neumannU") => pc[r] = "update"
          /\ (pc'[r] = "neumannV" /\ pc[r] # "neumannV") => pc[r] = "neumannU"
      ]_vars

C10_Witness ==
    \E r \in Runs :
        /\ pc[r] = "neumannV" /\ cfg[r].size = 4 /\ i[r] = 1
        /\ At(U[r], 1, 1) # At(prevU[r], 1, 1)
        /\ At(U[r], 0, 0) # At(prevU[r], 0, 0)
        /\ At(V[r], 0, 0) = At(prevV[r], 0, 0)


\* Z samples an affine function of the indices
IsAffine(Z) ==
    \A c \in DOMAIN Z.data :
        At(Z, c[1], c[2]) =
            At(Z, 0, 0) + c[1] * (At(Z, 1, 0) - At(Z, 0, 0))
                        + c[2] * (At(Z, 0, 1) - At(Z, 0, 0))

Neighbourhood(c) ==
    {c, <<c[1] - 1, c[2]>>, <<c[1] + 1, c[2]>>, <<c[1], c[2] - 1>>, <<c[1], c[2] + 1>>}

\* Runs 1 and 2 have both just made the interior update of the same
\* iteration, from states that were identical but for V at the cell c.
PerturbedAt(c) ==
    /\ pc[1] = "neumannU" /\ pc[2] = "neumannU" /\ i[1] = i[2]
    /\ cfg[1] = cfg[2] /\ dx[1] = dx[2] /\ dt[1] = dt[2]
    /\ prevU[1] = prevU[2]
    /\ \A p \in DOMAIN prevV[1].data :
           (prevV[1].data[p] = prevV[2].data[p]) <=> (p # c)

\* C4 as claimed: U's updated value at the perturbed cell is the same in both
\* runs, and V's updated values differ only at that cell and its neighbours.
C4_Original ==
    \A c \in Interior(cfg[1].size) :
        PerturbedAt(c) =>
            /\ U[1].data[c] = U[2].data[c]
            /\ \A p \in DOMAIN V[1].data \ Neighbourhood(c) : V[1].data[p] = V[2].data[p]

\* C4 as amended: U's updated value is the same in both runs at every cell
\* but the perturbed one (where the update subtracts Vc), and V's updated
\* values are the same at every cell but that one and its four neighbours.
C4_PerturbationConfined ==
    \A c \in Interior(cfg[1].size) :
        PerturbedAt(c) =>
            /\ \A p \in DOMAIN U[1].data \ {c} : U[1].data[p] = U[2].data[p]
            /\ \A p \in DOMAIN V[1].data \ Neighbourhood(c) : V[1].data[p] = V[2].data[p]

C4_Witness ==
    \E c \in Interior(cfg[1].size) :
        /\ PerturbedAt(c)
        /\ cfg[1].size = 4 /\ cfg[1].b # 0
        /\ U[1].data[c] # U[2].data[c]
        /\ V[1].data[c] # V[2].data[c]
        /\ \E p \in Neighbourhood(c) \ {c} : V[1].data[p] # V[2].data[p]

=============================================================================
